---- MODULE Spec2Model ----
(***************************************************************************)
(* Model of the note-taking backend in src-tauri/src/lib.rs: the identity  *)
(* helpers (extract_title, sanitize_filename, generate_preview), the note  *)
(* store commands over a flat folder of markdown files, the settings       *)
(* commands, and the file watcher with its per-path debounce map.          *)
(*                                                                         *)
(* Text is a sequence of characters; a character is a one-element string,  *)
(* with NBSP and BOM standing for U+00A0 and U+FEFF.                       *)
(***************************************************************************)
EXTENDS Integers, Sequences, FiniteSets, TLC

\* ------------------------------------------------------------------------
\* Characters and text helpers (the std library calls the source relies on)
\* ------------------------------------------------------------------------
NBSP == "NBSP"
BOM == "BOM"
LF == "LF"
CR == "CR"

\* char::is_whitespace: the Unicode White_Space property (U+00A0 has it,
\* U+FEFF does not).
IsWhitespace(c) == c \in {" ", "TAB", LF, CR, NBSP}

\* Iterator::take(n) on the characters of s.
Take(s, n) == IF Len(s) <= n THEN s ELSE SubSeq(s, 1, n)

\* s[k..]: the text from the (k+1)-th character on.
DropFirst(s, k) == IF Len(s) <= k THEN << >> ELSE SubSeq(s, k + 1, Len(s))

RECURSIVE TrimStart(_)
TrimStart(s) ==
    IF s = << >> THEN << >>
    ELSE IF IsWhitespace(Head(s)) THEN TrimStart(Tail(s)) ELSE s

RECURSIVE TrimEnd(_)
TrimEnd(s) ==
    IF s = << >> THEN << >>
    ELSE IF IsWhitespace(s[Len(s)]) THEN TrimEnd(SubSeq(s, 1, Len(s) - 1)) ELSE s

\* str::trim
Trim(s) == TrimEnd(TrimStart(s))

\* str::starts_with
StartsWith(s, p) == Len(s) >= Len(p) /\ SubSeq(s, 1, Len(p)) = p

\* Split s at every LF; the pieces do not contain LF.
RECURSIVE SplitLF(_, _, _)
SplitLF(s, cur, acc) ==
    IF s = << >> THEN Append(acc, cur)
    ELSE IF Head(s) = LF THEN SplitLF(Tail(s), << >>, Append(acc, cur))
    ELSE SplitLF(Tail(s), Append(cur, Head(s)), acc)

StripCR(l) == IF l # << >> /\ l[Len(l)] = CR THEN SubSeq(l, 1, Len(l) - 1) ELSE l

\* str::lines: lines end at LF or CR LF; a final empty line is not a line.
Lines(s) ==
    LET pieces == SplitLF(s, << >>, << >>)
        kept == IF pieces[Len(pieces)] = << >>
                THEN SubSeq(pieces, 1, Len(pieces) - 1) ELSE pieces
    IN [i \in 1..Len(kept) |-> StripCR(kept[i])]

\* ------------------------------------------------------------------------
\* Identity helpers
\* ------------------------------------------------------------------------
TitleMax == 50
PreviewMax == 100

is_effectively_empty(s) ==
    \A i \in 1..Len(s) : IsWhitespace(s[i]) \/ s[i] = NBSP \/ s[i] = BOM

ReservedChars == {"/", "\\", ":", "*", "?", "\"", "<", ">", "|"}

RECURSIVE FilterMap(_)
FilterMap(s) ==
    IF s = << >> THEN << >>
    ELSE IF Head(s) \in {NBSP, BOM} THEN FilterMap(Tail(s))
    ELSE << (IF Head(s) \in ReservedChars THEN "-" ELSE Head(s)) >> \o FilterMap(Tail(s))

Untitled == << "u", "n", "t", "i", "t", "l", "e", "d" >>
UntitledTitle == << "U", "n", "t", "i", "t", "l", "e", "d" >>

sanitize_filename(title) ==
    LET trimmed == Trim(FilterMap(title))
    IN IF trimmed = << >> \/ is_effectively_empty(trimmed) THEN Untitled ELSE trimmed

Heading == << "#", " " >>

RECURSIVE TitleScan(_)
TitleScan(ls) ==
    IF ls = << >> THEN UntitledTitle
    ELSE LET trimmed == Trim(Head(ls))
             title == Trim(DropFirst(trimmed, 2))
         IN IF StartsWith(trimmed, Heading) /\ ~is_effectively_empty(title)
            THEN title
            ELSE IF ~is_effectively_empty(trimmed)
                 THEN Take(trimmed, TitleMax)
                 ELSE TitleScan(Tail(ls))

extract_title(content) == TitleScan(Lines(content))

RECURSIVE PreviewScan(_)
PreviewScan(ls) ==
    IF ls = << >> THEN << >>
    ELSE LET trimmed == Trim(Head(ls))
         IN IF trimmed # << >> /\ ~StartsWith(trimmed, << "#" >>)
            THEN Take(trimmed, PreviewMax)
            ELSE PreviewScan(Tail(ls))

generate_preview(content) ==
    LET ls == Lines(content)
    IN PreviewScan(IF ls = << >> THEN << >> ELSE Tail(ls))

\* ------------------------------------------------------------------------
\* Paths
\* ------------------------------------------------------------------------
MdExt == << "m", "d" >>

\* format!("{}.md", id)
FileName(id) == id \o << "." >> \o MdExt

DotPositions(name) == {i \in 1..Len(name) : name[i] = "."}
LastDot(name) == CHOOSE i \in DotPositions(name) : \A j \in DotPositions(name) : j <= i

\* Path::extension, as an Option (a sequence of length 0 or 1): none when the
\* name has no dot, or only a leading one.
Extension(name) ==
    IF DotPositions(name) \subseteq {1} THEN << >>
    ELSE << DropFirst(name, LastDot(name)) >>

\* Path::file_stem
FileStem(name) ==
    IF DotPositions(name) \subseteq {1} THEN name
    ELSE SubSeq(name, 1, LastDot(name) - 1)

\* path.extension().map_or(false, |ext| ext == "md")
IsMd(name) == Extension(name) = << MdExt >>

DigitChars == << "0", "1", "2", "3", "4", "5", "6", "7", "8", "9" >>

\* The decimal rendering of a positive counter by format!("{}", counter).
RECURSIVE Decimal(_)
Decimal(n) ==
    IF n < 10 THEN << DigitChars[n + 1] >>
    ELSE Decimal(n \div 10) \o << DigitChars[(n % 10) + 1] >>

\* format!("{}-{}", base_id, counter)
Candidate(base_id, counter) == base_id \o << "-" >> \o Decimal(counter)

\* ------------------------------------------------------------------------
\* Bounds and input sets
\* ------------------------------------------------------------------------
MaxNotes == 3       \* notes on disk at once, where ids are allocated
MaxListed == 2      \* notes on disk at once, where the folder is listed
MaxCmdNotes == 1    \* notes on disk at once, where the settings change
MaxClock == 1       \* wall clock, in seconds
MaxWatchers == 2    \* watchers created in a run
MaxQueue == 1       \* raw events a watcher thread has yet to handle
MaxTime == 1000     \* monotonic clock of the watcher thread, in ms
TimeStep == 250     \* granularity of the monotonic clock, in ms

MaxThreads == 2     \* threads that invoke commands
MaxStarts == 1      \* watchers started while commands run as threads
MaxTitleLen == 5    \* characters of a content whose title is extracted

MaxSearchNotes == 22 \* notes in the folder that is searched
MaxPermuted == 3    \* directory entries whose every read_dir order is tried

\* "/A" is a directory that exists at startup; "/B" does not exist and is never
\* created (update_settings accepts a folder without creating it).
Folders == {"/A", "/B"}
NewFolders == {"/A"}
Themes == {"dark"}

Foo == << "F", "o", "o" >>
ContentFoo == << "#", " ", "F", "o", "o", LF, LF, "b", "a", "r" >>
ContentSlash == << "a", "/", "b" >>
Template == << "#", " ", "U", "n", "t", "i", "t", "l", "e", "d", LF, LF >>

Contents == {ContentFoo, ContentSlash}
SaveIds == {Foo}
AnyId == {<< >>} \cup {<< i >> : i \in SaveIds}

\* The contents extract_title is applied to: every text of up to MaxTitleLen
\* characters over TitleChars, and texts with a line longer than the
\* truncation limit or made of invisible characters only.
TitleChars == {"#", " ", "x", LF}

RECURSIVE Texts(_)
Texts(n) ==
    IF n = 0 THEN {<< >>}
    ELSE LET shorter == Texts(n - 1)
         IN shorter \cup {Append(t, c) : t \in {u \in shorter : Len(u) = n - 1}, c \in TitleChars}

LongLine == [i \in 1..(TitleMax + 10) |-> "x"]
Invisible == << LF, NBSP, LF, " ", BOM, LF >>

TitleInputs ==
    Texts(MaxTitleLen)
        \cup {LongLine, << " " >> \o LongLine \o << LF >> \o LongLine, Invisible,
              << NBSP, LF >> \o Heading \o << BOM, " ", LF, "#", " ", "y" >>}

\* The notes of a searched folder and the queries it is searched with.
ShoppingList == << "#", " ", "S", "h", "o", "p", "p", "i", "n", "g", " ", "L", "i", "s", "t", LF, LF, "m", "i", "l", "k" >>
RecipeBook == << "#", " ", "R", "e", "c", "i", "p", "e", " ", "B", "o", "o", "k", LF, LF, "S", "h", "o", "p", " ", "f", "o", "r", " ", "e", "g", "g", "s" >>
Shop == << "#", " ", "s", "h", "o", "p" >>
Plain == << "#", " ", "N", "o", "t", "e", "s", LF, LF, "n", "o", "t", "h", "i", "n", "g" >>

\* A folder holds the contents of a mix, repeated in the order of its names.
Mixes == { << ShoppingList, RecipeBook, Shop, Plain >>, << ShoppingList, RecipeBook >>,
           << RecipeBook, Shop >>, << Plain >> }

Queries == { << >>, << " ", NBSP >>, << "s", "h", "o", "p" >>, << "S", "H", "O", "P" >>, << "S", "h", "o", "p", " ", "l", "i", "s", "t" >>, << " ", "s", "h", "o", "p" >>, << "s" >>, << BOM >> }

\* The name of the i-th note of a searched folder.
SearchName(i) == FileName(<< "n" >> \o Decimal(i))

\* ------------------------------------------------------------------------
\* State
\* ------------------------------------------------------------------------
VARIABLES
    settings,       \* AppState.settings: [notes_folder: Option, theme]
    disk_settings,  \* the settings persisted in settings.json
    fs,             \* the disk: folder -> [exists, files: name -> entry]
    notes_cache,    \* AppState.notes_cache: id -> NoteMetadata
    file_watcher,   \* AppState.file_watcher: Option of a watcher
    watchers,       \* every watcher created: armed, folder, debounce map, queue
    starting,       \* the watcher start_file_watcher has set up and not yet stored
    clock,          \* SystemTime::now(), in seconds
    now,            \* Instant::now(), in ms
    handled,        \* the watchers whose callback has run for the latest raw event
    emitted,        \* the callback that ran last and the notifications it emitted
    last_emit,      \* per watcher and path, when its last notification was emitted
    last,           \* the last command invoked and what it returned
    calls,          \* per thread, the command it runs: where it is and its locals
    locks           \* the mutexes of AppState: the thread that holds each, or 0

vars == << settings, disk_settings, fs, notes_cache, file_watcher, watchers,
           starting, clock, now, handled, emitted, last_emit, last, calls, locks >>

storeVars == << settings, disk_settings, fs, notes_cache, clock, last >>
watchVars == << file_watcher, watchers, starting, now, handled, emitted, last_emit >>
callVars == << calls, locks >>
dataVars == << settings, disk_settings, fs, notes_cache, clock >>

NoFolderErr == "Notes folder not set"
NotFoundErr == "Note not found"
IoErr == "io error"

Ok(val) == [ok |-> TRUE, err |-> "", val |-> val]
Err(e) == [ok |-> FALSE, err |-> e, val |-> << >>]

\* A command, its arguments and its return value.
Call(op, id, content, res) == [op |-> op, id |-> id, content |-> content, res |-> res]

File(content, modified) ==
    [kind |-> "file", utf8 |-> TRUE, content |-> content, modified |-> modified]
Dir == [kind |-> "dir", utf8 |-> FALSE, content |-> << >>, modified |-> 0]
\* a file that is not valid UTF-8: fs::read_to_string fails on it
Binary == [kind |-> "file", utf8 |-> FALSE, content |-> << >>, modified |-> 0]

Assets == << "a", "s", "s", "e", "t", "s" >>
NotesTxt == << "n", "o", "t", "e", "s", ".", "t", "x", "t" >>
BinMd == << "b", "i", "n", ".", "m", "d" >>

Files(folder) == fs[folder].files
Exists(folder, name) == fs[folder].exists /\ name \in DOMAIN Files(folder)

\* WriteFile storing the trimmed content.
WriteFileTrimmed(folder, name, content) ==
    [fs EXCEPT ![folder].files = (name :> File(Trim(content), clock)) @@ Files(folder)]

\* fs::write of a file of the folder (fails when the folder is missing)
WriteFile(folder, name, content) ==
    [fs EXCEPT ![folder].files = (name :> File(content, clock)) @@ Files(folder)]

\* fs::remove_file
RemoveFile(folder, name) ==
    [fs EXCEPT ![folder].files = [n \in (DOMAIN Files(folder)) \ {name} |-> Files(folder)[n]]]

\* The note files written so far, over all folders.
NoteCount == Cardinality({p \in Folders \X UNION {DOMAIN Files(f) : f \in Folders} :
                            /\ p[2] \in DOMAIN Files(p[1])
                            /\ Files(p[1])[p[2]].utf8
                            /\ p[2] # NotesTxt})

DefaultSettings == [notes_folder |-> << >>, theme |-> ""]

NoEvent == [ok |-> FALSE, kind |-> "", paths |-> << >>]

NoWatcher == [armed |-> FALSE, folder |-> "", map |-> << >>, queue |-> << >>]

\* The threads that invoke commands are 1..MaxThreads; the notification thread
\* of watcher w is -w.
Threads == 1..MaxThreads
WatcherThread(w) == 0 - w
AllThreads == Threads \cup {WatcherThread(w) : w \in 1..MaxWatchers}

LockNames == {"settings", "notes_cache", "file_watcher"}

NoArg == [id |-> << >>, content |-> << >>, path |-> << >>, new_settings |-> << >>]

\* A thread that runs nothing (pc = 0).
NoCall == [op |-> "none", pc |-> 0, arg |-> NoArg, local |-> << >>]

Init ==
    /\ settings = DefaultSettings
    /\ disk_settings = DefaultSettings
    /\ fs = [f \in Folders |->
               IF f = "/A"
               THEN [exists |-> TRUE,
                     files |-> (NotesTxt :> File(ContentFoo, 0)) @@ (BinMd :> Binary)]
               ELSE [exists |-> FALSE, files |-> << >>]]
    /\ notes_cache = << >>
    /\ file_watcher = << >>
    /\ watchers = [w \in 1..MaxWatchers |-> NoWatcher]
    /\ starting = << >>
    /\ clock = 0
    /\ now = 0
    /\ handled = {}
    /\ emitted = [watcher |-> 0, event |-> NoEvent, out |-> << >>]
    /\ last_emit = [w \in 1..MaxWatchers |-> << >>]
    /\ calls = [t \in AllThreads |-> NoCall]
    /\ locks = [l \in LockNames |-> 0]
    /\ last = [op |-> "init", id |-> << >>, content |-> << >>, res |-> Ok(<< >>)]

\* A start that finds the settings of an earlier session in settings.json
\* (run loads them): the folder that session configured.
InitWatch ==
    /\ settings = [notes_folder |-> << "/A" >>, theme |-> "dark"]
    /\ disk_settings = settings
    /\ fs = [f \in Folders |->
               IF f = "/A"
               THEN [exists |-> TRUE,
                     files |-> (Assets :> Dir) @@ (NotesTxt :> File(ContentFoo, 0))
                                  @@ (BinMd :> Binary)]
               ELSE [exists |-> FALSE, files |-> << >>]]
    /\ notes_cache = << >>
    /\ file_watcher = << >>
    /\ watchers = [w \in 1..MaxWatchers |-> NoWatcher]
    /\ starting = << >>
    /\ clock = 0
    /\ now = 0
    /\ handled = {}
    /\ emitted = [watcher |-> 0, event |-> NoEvent, out |-> << >>]
    /\ last_emit = [w \in 1..MaxWatchers |-> << >>]
    /\ calls = [t \in AllThreads |-> NoCall]
    /\ locks = [l \in LockNames |-> 0]
    /\ last = [op |-> "init", id |-> << >>, content |-> << >>, res |-> Ok(<< >>)]

\* A content handed to extract_title, before the call.
InitTitle ==
    /\ settings = DefaultSettings
    /\ disk_settings = DefaultSettings
    /\ fs = [f \in Folders |-> [exists |-> FALSE, files |-> << >>]]
    /\ notes_cache = << >>
    /\ file_watcher = << >>
    /\ watchers = [w \in 1..MaxWatchers |-> NoWatcher]
    /\ starting = << >>
    /\ clock = 0
    /\ now = 0
    /\ handled = {}
    /\ emitted = [watcher |-> 0, event |-> NoEvent, out |-> << >>]
    /\ last_emit = [w \in 1..MaxWatchers |-> << >>]
    /\ calls = [t \in AllThreads |-> NoCall]
    /\ locks = [l \in LockNames |-> 0]
    /\ \E content \in TitleInputs :
          last = [op |-> "input", id |-> << >>, content |-> << content >>, res |-> Ok(<< >>)]

\* extract_title applied to the content.
ExtractTitle ==
    /\ last.op = "input"
    /\ last' = Call("extract_title", << >>, last.content, Ok(<< extract_title(last.content[1]) >>))
    /\ UNCHANGED << settings, disk_settings, fs, notes_cache, clock >>
    /\ UNCHANGED << watchVars, callVars >>

\* A start on a folder of up to MaxSearchNotes notes, configured by an earlier
\* session (or not configured, or configured and since removed).
InitSearch ==
    /\ \E folder \in {<< >>} \cup {<< f >> : f \in Folders} :
          settings = [notes_folder |-> folder, theme |-> "dark"]
    /\ disk_settings = settings
    /\ \E k \in 0..MaxSearchNotes, mix \in Mixes :
          fs = [f \in Folders |->
                  IF f = "/A"
                  THEN [exists |-> TRUE,
                        files |-> [n \in {SearchName(i) : i \in 1..k} |->
                                     LET i == CHOOSE i \in 1..k : SearchName(i) = n
                                     IN File(mix[((i - 1) % Len(mix)) + 1], 0)]
                                  @@ (NotesTxt :> File(Shop, 0)) @@ (BinMd :> Binary)
                                  @@ (Assets :> Dir)]
                  ELSE [exists |-> FALSE, files |-> << >>]]
    /\ notes_cache = << >>
    /\ file_watcher = << >>
    /\ watchers = [w \in 1..MaxWatchers |-> NoWatcher]
    /\ starting = << >>
    /\ clock = 0
    /\ now = 0
    /\ handled = {}
    /\ emitted = [watcher |-> 0, event |-> NoEvent, out |-> << >>]
    /\ last_emit = [w \in 1..MaxWatchers |-> << >>]
    /\ calls = [t \in AllThreads |-> NoCall]
    /\ locks = [l \in LockNames |-> 0]
    /\ last = [op |-> "init", id |-> << >>, content |-> << >>, res |-> Ok(<< >>)]

\* ------------------------------------------------------------------------
\* Settings commands
\* ------------------------------------------------------------------------
\* fs::create_dir_all(path) and fs::create_dir_all(path.join("assets"))
CreateDirs(folder) ==
    [fs EXCEPT ![folder] =
        [exists |-> TRUE,
         files |-> IF Assets \in DOMAIN Files(folder) THEN Files(folder)
                   ELSE (Assets :> Dir) @@ Files(folder)]]

SetNotesFolder ==
    \E path \in NewFolders :
        /\ starting = << >>
        /\ fs' = CreateDirs(path)
        /\ settings' = [settings EXCEPT !.notes_folder = << path >>]
        /\ disk_settings' = settings'
        /\ last' = Call("set_notes_folder", << >>, << >>, Ok(<< >>))
        /\ UNCHANGED << notes_cache, clock >>
        /\ UNCHANGED << watchVars, callVars >>

UpdateSettings ==
    \E folder \in {<< >>} \cup {<< f >> : f \in Folders}, theme \in Themes :
        /\ starting = << >>
        /\ settings' = [notes_folder |-> folder, theme |-> theme]
        /\ disk_settings' = settings'
        /\ last' = Call("update_settings", << >>, << >>, Ok(<< >>))
        /\ UNCHANGED << fs, notes_cache, clock >>
        /\ UNCHANGED << watchVars, callVars >>

\* ------------------------------------------------------------------------
\* Note store commands
\* ------------------------------------------------------------------------
\* settings.notes_folder.as_ref().ok_or("Notes folder not set")
HasFolder == settings.notes_folder # << >>
Folder == settings.notes_folder[1]

\* A command that fails changes nothing but its return value.
Fail(op, id, content, e) ==
    /\ last' = Call(op, id, content, Err(e))
    /\ UNCHANGED << settings, disk_settings, fs, notes_cache, clock >>
    /\ UNCHANGED << watchVars, callVars >>

Metadata(folder, name) ==
    [id |-> FileStem(name),
     title |-> extract_title(Files(folder)[name].content),
     preview |-> generate_preview(Files(folder)[name].content),
     modified |-> Files(folder)[name].modified]

\* The directory entries list_notes keeps: extension md, readable as UTF-8.
Listed(folder) ==
    {n \in DOMAIN Files(folder) :
        IsMd(n) /\ Files(folder)[n].kind = "file" /\ Files(folder)[n].utf8}

\* The orders fs::read_dir may yield the kept entries in.
Orders(S) ==
    {o \in [1..Cardinality(S) -> S] : \A i, j \in 1..Cardinality(S) : o[i] = o[j] => i = j}

\* The comparator with a and b swapped: oldest first.
OlderFirst(a, b) == a.modified <= b.modified

\* The comparator of notes.sort_by: TRUE when a must not come after b.
NewerFirst(a, b) == b.modified <= a.modified

\* Insert x behind every element that must not come after it (a stable sort).
RECURSIVE InsertSorted(_, _)
InsertSorted(x, sorted) ==
    IF sorted = << >> THEN << x >>
    ELSE IF NewerFirst(Head(sorted), x) THEN << Head(sorted) >> \o InsertSorted(x, Tail(sorted))
    ELSE << x >> \o sorted

RECURSIVE SortNotes(_)
SortNotes(notes) ==
    IF notes = << >> THEN << >>
    ELSE InsertSorted(notes[Len(notes)], SortNotes(SubSeq(notes, 1, Len(notes) - 1)))

\* cache.clear(); cache.insert(note.id, note) for every note
CacheOf(notes) ==
    [id \in {notes[i].id : i \in 1..Len(notes)} |->
        notes[CHOOSE i \in 1..Len(notes) :
                /\ notes[i].id = id
                /\ \A j \in 1..Len(notes) : notes[j].id = id => j <= i]]

\* list_notes taking a missing folder for an empty one.
ListNotesDefaulting ==
    /\ starting = << >>
    /\ IF ~HasFolder \/ ~fs[Folder].exists
       THEN /\ notes_cache' = << >>
            /\ last' = Call("list", << >>, << >>, Ok(<< >>))
            /\ UNCHANGED << settings, disk_settings, fs, clock >>
            /\ UNCHANGED << watchVars, callVars >>
       ELSE \E order \in Orders(Listed(Folder)) :
            LET notes == SortNotes([i \in 1..Len(order) |-> Metadata(Folder, order[i])])
            IN /\ notes_cache' = CacheOf(notes)
               /\ last' = Call("list", << >>, << >>, Ok(notes))
               /\ UNCHANGED << settings, disk_settings, fs, clock >>
               /\ UNCHANGED << watchVars, callVars >>

ListNotes ==
    /\ starting = << >>
    /\ IF ~HasFolder THEN Fail("list", << >>, << >>, NoFolderErr)
       ELSE IF ~fs[Folder].exists
       THEN /\ last' = Call("list", << >>, << >>, Ok(<< >>))
            /\ UNCHANGED << settings, disk_settings, fs, notes_cache, clock >>
            /\ UNCHANGED << watchVars, callVars >>
       ELSE \E order \in Orders(Listed(Folder)) :
            LET notes == SortNotes([i \in 1..Len(order) |-> Metadata(Folder, order[i])])
            IN /\ notes_cache' = CacheOf(notes)
               /\ last' = Call("list", << >>, << >>, Ok(notes))
               /\ UNCHANGED << settings, disk_settings, fs, clock >>
               /\ UNCHANGED << watchVars, callVars >>

NoteOf(folder, id, title, content, modified) ==
    [id |-> id, title |-> title, content |-> content,
     path |-> << folder, FileName(id) >>, modified |-> modified]

\* The ids read and delete are called with: the ids given to save and the
\* ids of the notes present.
IdArgs ==
    SaveIds \cup (IF HasFolder THEN {FileStem(n) : n \in Listed(Folder)} ELSE {})

ReadNote ==
    \E id \in IdArgs :
        /\ starting = << >>
        /\ IF ~HasFolder THEN Fail("read", << id >>, << >>, NoFolderErr)
           ELSE IF ~Exists(Folder, FileName(id))
           THEN Fail("read", << id >>, << >>, NotFoundErr)
           ELSE IF ~Files(Folder)[FileName(id)].utf8
           THEN Fail("read", << id >>, << >>, IoErr)
           ELSE LET f == Files(Folder)[FileName(id)]
                IN /\ last' = Call("read", << id >>, << >>,
                                   Ok(<< NoteOf(Folder, id, extract_title(f.content),
                                                f.content, f.modified) >>))
                   /\ UNCHANGED << settings, disk_settings, fs, notes_cache, clock >>
                   /\ UNCHANGED << watchVars, callVars >>

\* UniqueId without the loop: the base id, taken or not.
UniqueIdUnchecked(folder, base_id, final_id, counter) == final_id

\* UniqueId with the counter incremented ahead of the format: base_id-1 is
\* never tried.
RECURSIVE UniqueIdSkipping(_, _, _, _)
UniqueIdSkipping(folder, base_id, final_id, counter) ==
    IF Exists(folder, FileName(final_id))
    THEN UniqueIdSkipping(folder, base_id, Candidate(base_id, counter + 1), counter + 1)
    ELSE final_id

\* The loop of save_note and create_note: the first of base_id, base_id-1,
\* base_id-2, ... that names no existing file.
RECURSIVE UniqueId(_, _, _, _)
UniqueId(folder, base_id, final_id, counter) ==
    IF Exists(folder, FileName(final_id))
    THEN UniqueId(folder, base_id, Candidate(base_id, counter), counter + 1)
    ELSE final_id

\* SaveTarget following the title: a save with an id is stored under the id
\* of its new title.
SaveTargetByTitle(folder, id, title) ==
    UniqueId(folder, sanitize_filename(title), sanitize_filename(title), 1)

\* The id save_note writes to.
SaveTarget(folder, id, title) ==
    IF id # << >> THEN id[1]
    ELSE UniqueId(folder, sanitize_filename(title), sanitize_filename(title), 1)

\* save_note, called with an id of ids and a content of contents while at
\* most cap notes are on disk.
SaveNote(cap, ids, contents) ==
    \E id \in ids, content \in contents :
        /\ starting = << >>
        /\ IF ~HasFolder THEN Fail("save", id, << content >>, NoFolderErr)
           ELSE LET title == extract_title(content)
                    note_id == SaveTarget(Folder, id, title)
                IN IF ~fs[Folder].exists
                   THEN Fail("save", id, << content >>, IoErr)
                   ELSE /\ Exists(Folder, FileName(note_id)) \/ NoteCount < cap
                        /\ fs' = WriteFile(Folder, FileName(note_id), content)
                        /\ last' = Call("save", id, << content >>,
                                        Ok(<< NoteOf(Folder, note_id, title, content, clock) >>))
                        /\ UNCHANGED << settings, disk_settings, notes_cache, clock >>
                        /\ UNCHANGED << watchVars, callVars >>

\* delete_note failing on an id that has no file.
DeleteNoteStrict ==
    \E id \in IdArgs :
        /\ starting = << >>
        /\ IF ~HasFolder THEN Fail("delete", << id >>, << >>, NoFolderErr)
           ELSE IF ~Exists(Folder, FileName(id))
           THEN Fail("delete", << id >>, << >>, NotFoundErr)
           ELSE /\ fs' = RemoveFile(Folder, FileName(id))
                /\ last' = Call("delete", << id >>, << >>, Ok(<< >>))
                /\ UNCHANGED << settings, disk_settings, notes_cache, clock >>
                /\ UNCHANGED << watchVars, callVars >>

DeleteNote ==
    \E id \in IdArgs :
        /\ starting = << >>
        /\ IF ~HasFolder THEN Fail("delete", << id >>, << >>, NoFolderErr)
           ELSE /\ fs' = IF Exists(Folder, FileName(id))
                         THEN RemoveFile(Folder, FileName(id)) ELSE fs
                /\ last' = Call("delete", << id >>, << >>, Ok(<< >>))
                /\ UNCHANGED << settings, disk_settings, notes_cache, clock >>
                /\ UNCHANGED << watchVars, callVars >>

\* create_note, called while at most cap notes are on disk.
CreateNote(cap) ==
    /\ starting = << >>
    /\ IF ~HasFolder THEN Fail("create", << >>, << >>, NoFolderErr)
       ELSE LET final_id == UniqueId(Folder, Untitled, Untitled, 1)
            IN IF ~fs[Folder].exists
               THEN Fail("create", << >>, << >>, IoErr)
               ELSE /\ NoteCount < cap
                    /\ fs' = WriteFile(Folder, FileName(final_id), Template)
                    /\ last' = Call("create", << >>, << >>,
                                    Ok(<< NoteOf(Folder, final_id, UntitledTitle, Template, clock) >>))
                    /\ UNCHANGED << settings, disk_settings, notes_cache, clock >>
                    /\ UNCHANGED << watchVars, callVars >>

\* ------------------------------------------------------------------------
\* Search
\* ------------------------------------------------------------------------
SearchLimit == 20

UpperChars == << "A", "B", "C", "D", "E", "F", "G", "H", "I", "J", "K", "L", "M",
                 "N", "O", "P", "Q", "R", "S", "T", "U", "V", "W", "X", "Y", "Z" >>
LowerChars == << "a", "b", "c", "d", "e", "f", "g", "h", "i", "j", "k", "l", "m",
                 "n", "o", "p", "q", "r", "s", "t", "u", "v", "w", "x", "y", "z" >>

\* str::to_lowercase
ToLower(s) ==
    [i \in 1..Len(s) |->
        IF \E k \in 1..Len(UpperChars) : UpperChars[k] = s[i]
        THEN LowerChars[CHOOSE k \in 1..Len(UpperChars) : UpperChars[k] = s[i]]
        ELSE s[i]]

\* str::contains
Contains(s, sub) ==
    \E i \in 0..(Len(s) - Len(sub)) : SubSeq(s, i + 1, i + Len(sub)) = sub

\* str::split_whitespace
RECURSIVE SplitWhitespace(_, _, _)
SplitWhitespace(s, cur, acc) ==
    IF s = << >> THEN (IF cur = << >> THEN acc ELSE Append(acc, cur))
    ELSE IF IsWhitespace(Head(s))
         THEN SplitWhitespace(Tail(s), << >>, IF cur = << >> THEN acc ELSE Append(acc, cur))
         ELSE SplitWhitespace(Tail(s), Append(cur, Head(s)), acc)

\* str::len: the length in bytes of the UTF-8 encoding.
RECURSIVE ByteLen(_)
ByteLen(s) ==
    IF s = << >> THEN 0
    ELSE (IF Head(s) = NBSP THEN 2 ELSE IF Head(s) = BOM THEN 3 ELSE 1) + ByteLen(Tail(s))

\* The loop over the words of the query.
RECURSIVE WordScore(_, _, _)
WordScore(words, title_lower, content_lower) ==
    IF words = << >> THEN 0
    ELSE LET word == Head(words)
         IN (IF ByteLen(word) < 2 THEN 0
             ELSE (IF Contains(title_lower, word) THEN 20 ELSE 0)
                  + (IF Contains(content_lower, word) THEN 5 ELSE 0))
            + WordScore(Tail(words), title_lower, content_lower)

\* The scores are sums of whole numbers far below 2^24, which f32 holds
\* exactly.
calculate_score(query, title, content) ==
    LET query_lower == ToLower(query)
        title_lower == ToLower(title)
        content_lower == ToLower(content)
    IN (IF title_lower = query_lower THEN 100
        ELSE IF Contains(title_lower, query_lower) THEN 50
        ELSE IF StartsWith(title_lower, query_lower) THEN 40
        ELSE 0)
       + WordScore(SplitWhitespace(query_lower, << >>, << >>), title_lower, content_lower)

SearchResultOf(folder, name, query) ==
    LET content == Files(folder)[name].content
        title == extract_title(content)
    IN [id |-> FileStem(name), title |-> title, preview |-> generate_preview(content),
        modified |-> Files(folder)[name].modified,
        score |-> calculate_score(query, title, content)]

\* The elements of S in a row.
RECURSIVE SeqOf(_)
SeqOf(S) ==
    IF S = {} THEN << >>
    ELSE LET x == CHOOSE x \in S : TRUE IN << x >> \o SeqOf(S \ {x})

Reverse(q) == [i \in 1..Len(q) |-> q[Len(q) + 1 - i]]

\* The orders fs::read_dir yields the entries in: every order of a few
\* entries, an order and its reverse of many.
ScanOrders(S) ==
    IF Cardinality(S) <= MaxPermuted THEN Orders(S) ELSE {SeqOf(S), Reverse(SeqOf(S))}

\* The comparator with a and b swapped: lowest score first.
LowerFirst(a, b) == a.score <= b.score

\* The comparator of results.sort_by: TRUE when a must not come after b.
HigherFirst(a, b) == b.score <= a.score

RECURSIVE InsertByScore(_, _)
InsertByScore(x, sorted) ==
    IF sorted = << >> THEN << x >>
    ELSE IF HigherFirst(Head(sorted), x) THEN << Head(sorted) >> \o InsertByScore(x, Tail(sorted))
    ELSE << x >> \o sorted

RECURSIVE SortResults(_)
SortResults(results) ==
    IF results = << >> THEN << >>
    ELSE InsertByScore(results[Len(results)], SortResults(SubSeq(results, 1, Len(results) - 1)))

\* The results pushed while scanning: those with a score above 0.
RECURSIVE Pushed(_)
Pushed(scanned) ==
    IF scanned = << >> THEN << >>
    ELSE (IF Head(scanned).score > 0 THEN << Head(scanned) >> ELSE << >>) \o Pushed(Tail(scanned))

\* search_notes, called with a query of queries.
SearchNotes(queries) ==
    \E query \in queries :
        /\ starting = << >>
        /\ IF Trim(query) = << >>
           THEN /\ last' = Call("search", << >>, << query >>, Ok(<< >>))
                /\ UNCHANGED << settings, disk_settings, fs, notes_cache, clock >>
                /\ UNCHANGED << watchVars, callVars >>
           ELSE IF ~HasFolder THEN Fail("search", << >>, << query >>, NoFolderErr)
           ELSE IF ~fs[Folder].exists
           THEN /\ last' = Call("search", << >>, << query >>, Ok(<< >>))
                /\ UNCHANGED << settings, disk_settings, fs, notes_cache, clock >>
                /\ UNCHANGED << watchVars, callVars >>
           ELSE \E order \in ScanOrders(Listed(Folder)) :
                LET scanned == [i \in 1..Len(order) |-> SearchResultOf(Folder, order[i], query)]
                    results == Take(SortResults(Pushed(scanned)), SearchLimit)
                IN /\ last' = Call("search", << >>, << query >>, Ok(results))
                   /\ UNCHANGED << settings, disk_settings, fs, notes_cache, clock >>
                   /\ UNCHANGED << watchVars, callVars >>

\* The wall clock moves on by a second.
Tick ==
    /\ clock < MaxClock
    /\ clock' = clock + 1
    /\ UNCHANGED << settings, disk_settings, fs, notes_cache, last >>
    /\ UNCHANGED << watchVars, callVars >>

\* ------------------------------------------------------------------------
\* File watcher
\* ------------------------------------------------------------------------
DebounceMs == 500

WatchErr == "watch setup error"

\* notify::EventKind: Create, Modify and Remove are classified, the others
\* (Any, Access, Other) are not.

\* Classified with a default arm that maps to "modified" instead of dropping.
ClassifiedAny(kind) ==
    IF kind = "create" THEN << "created" >>
    ELSE IF kind = "remove" THEN << "deleted" >>
    ELSE << "modified" >>

Classified(kind) ==
    IF kind = "create" THEN << "created" >>
    ELSE IF kind = "modify" THEN << "modified" >>
    ELSE IF kind = "remove" THEN << "deleted" >>
    ELSE << >>

FooMd == FileName(Foo)
UntitledMd == FileName(Untitled)
\* names whose extension is not md: a hidden file and an upper-case extension
DotMd == << ".", "m", "d" >>
FooUpperMd == << "F", "o", "o", ".", "M", "D" >>

\* What the OS hands to the callback: Ok(event) with a kind and paths, or
\* Err(error).
RawInputs ==
    { [ok |-> TRUE, kind |-> "modify", paths |-> << FooMd >>],
      [ok |-> TRUE, kind |-> "create", paths |-> << FooMd, UntitledMd >>],
      [ok |-> TRUE, kind |-> "remove", paths |-> << NotesTxt, DotMd, FooUpperMd, UntitledMd >>],
      [ok |-> TRUE, kind |-> "access", paths |-> << FooMd >>],
      [ok |-> FALSE, kind |-> "", paths |-> << >>] }

ClassifiedInputs == {raw \in RawInputs : raw.ok /\ Classified(raw.kind) # << >>}

\* Callback without the debounce check: every classified event is emitted.
RECURSIVE CallbackNoDebounce(_, _, _, _, _)
CallbackNoDebounce(event, paths, map, out, t) ==
    IF paths = << >> THEN [map |-> map, out |-> out]
    ELSE LET path == Head(paths)
             rest == Tail(paths)
         IN IF ~IsMd(path) THEN CallbackNoDebounce(event, rest, map, out, t)
            ELSE LET inserted == (path :> t) @@ map
                     kind == Classified(event.kind)
                 IN IF kind = << >> THEN CallbackNoDebounce(event, rest, inserted, out, t)
                    ELSE CallbackNoDebounce(event, rest, inserted,
                                            Append(out, [kind |-> kind[1], path |-> path]), t)

\* Callback with map.insert ahead of the check: a suppressed event restarts
\* the window.
RECURSIVE CallbackExtending(_, _, _, _, _)
CallbackExtending(event, paths, map, out, t) ==
    IF paths = << >> THEN [map |-> map, out |-> out]
    ELSE LET path == Head(paths)
             rest == Tail(paths)
             inserted == (path :> t) @@ map
         IN IF ~IsMd(path) THEN CallbackExtending(event, rest, map, out, t)
            ELSE IF path \in DOMAIN map /\ t - map[path] < DebounceMs
            THEN CallbackExtending(event, rest, inserted, out, t)
            ELSE LET kind == Classified(event.kind)
                 IN IF kind = << >> THEN CallbackExtending(event, rest, inserted, out, t)
                    ELSE CallbackExtending(event, rest, inserted,
                                           Append(out, [kind |-> kind[1], path |-> path]), t)

\* The closure given to RecommendedWatcher::new, run on Ok(event) at instant
\* t: the debounce map and the notifications after the paths left.
RECURSIVE Callback(_, _, _, _, _)
Callback(event, paths, map, out, t) ==
    IF paths = << >> THEN [map |-> map, out |-> out]
    ELSE LET path == Head(paths)
             rest == Tail(paths)
         IN IF ~IsMd(path) THEN Callback(event, rest, map, out, t)
            ELSE IF path \in DOMAIN map /\ t - map[path] < DebounceMs
            THEN Callback(event, rest, map, out, t)
            ELSE LET inserted == (path :> t) @@ map
                     kind == Classified(event.kind)
                 IN IF kind = << >> THEN Callback(event, rest, inserted, out, t)
                    ELSE Callback(event, rest, inserted,
                                  Append(out, [kind |-> kind[1], path |-> path]), t)

Created(w) == watchers[w].folder # ""
Armed == {w \in 1..MaxWatchers : watchers[w].armed}

\* setup_file_watcher: a new watcher, with an empty debounce map, watching
\* the folder from now on.
SetupFileWatcher(w, folder) ==
    [watchers EXCEPT ![w] = [armed |-> TRUE, folder |-> folder, map |-> << >>, queue |-> << >>]]

\* Dropping a FileWatcherState stops its watcher.
Dropped(ws, old) ==
    IF old = << >> THEN ws
    ELSE [ws EXCEPT ![old[1]].armed = FALSE, ![old[1]].map = << >>, ![old[1]].queue = << >>]

\* A dropped watcher emits nothing more.
Forgotten(old) == IF old = << >> THEN last_emit ELSE [last_emit EXCEPT ![old[1]] = << >>]

\* start_file_watcher up to the return of setup_file_watcher; the settings
\* lock is held from here to the end of the command.
StartSetup ==
    /\ starting = << >>
    /\ IF ~HasFolder THEN Fail("start", << >>, << >>, NoFolderErr)
       ELSE IF ~fs[Folder].exists THEN Fail("start", << >>, << >>, WatchErr)
       ELSE \E w \in 1..MaxWatchers :
            /\ ~Created(w)
            /\ \A v \in 1..(w - 1) : Created(v)
            /\ watchers' = SetupFileWatcher(w, Folder)
            /\ starting' = << w >>
            /\ UNCHANGED << file_watcher, now, handled, emitted, last_emit >>
            /\ UNCHANGED << storeVars, callVars >>

\* start_file_watcher from there: *file_watcher = Some(watcher_state), which
\* drops the watcher stored before.
StartStore ==
    /\ starting # << >>
    /\ file_watcher' = starting
    /\ watchers' = Dropped(watchers, file_watcher)
    /\ last_emit' = Forgotten(file_watcher)
    /\ starting' = << >>
    /\ last' = Call("start", << >>, << >>, Ok(<< >>))
    /\ UNCHANGED << now, handled, emitted >>
    /\ UNCHANGED << settings, disk_settings, fs, notes_cache, clock >>
    /\ UNCHANGED callVars

\* start_file_watcher as one step, for runs in which no watcher thread acts.
StartFileWatcher ==
    /\ starting = << >>
    /\ IF ~HasFolder THEN Fail("start", << >>, << >>, NoFolderErr)
       ELSE IF ~fs[Folder].exists THEN Fail("start", << >>, << >>, WatchErr)
       ELSE \E w \in 1..MaxWatchers :
            /\ ~Created(w)
            /\ \A v \in 1..(w - 1) : Created(v)
            /\ watchers' = Dropped(SetupFileWatcher(w, Folder), file_watcher)
            /\ file_watcher' = << w >>
            /\ last_emit' = Forgotten(file_watcher)
            /\ last' = Call("start", << >>, << >>, Ok(<< >>))
            /\ UNCHANGED << starting, now, handled, emitted >>
            /\ UNCHANGED << settings, disk_settings, fs, notes_cache, clock >>
            /\ UNCHANGED callVars

\* The OS reports a raw event in a folder to every watcher armed on it; latest
\* marks the copies of the raw event reported last.
RawEvent(inputs) ==
    \E folder \in Folders, raw \in inputs :
        /\ \E w \in Armed : watchers[w].folder = folder
        /\ \A w \in Armed : Len(watchers[w].queue) < MaxQueue
        /\ watchers' = [w \in 1..MaxWatchers |->
                          LET waiting == [i \in 1..Len(watchers[w].queue) |->
                                            [watchers[w].queue[i] EXCEPT !.latest = FALSE]]
                          IN IF watchers[w].armed /\ watchers[w].folder = folder
                             THEN [watchers[w] EXCEPT !.queue =
                                     Append(waiting, [raw |-> raw, latest |-> TRUE])]
                             ELSE [watchers[w] EXCEPT !.queue = waiting]]
        /\ handled' = {}
        /\ UNCHANGED << file_watcher, starting, now, emitted, last_emit >>
        /\ UNCHANGED << storeVars, callVars >>

\* The watcher thread of w runs the callback on its next raw event.
HandleEvent ==
    \E w \in Armed :
        /\ watchers[w].queue # << >>
        /\ LET event == Head(watchers[w].queue).raw
               done == IF event.ok
                       THEN Callback(event, event.paths, watchers[w].map, << >>, now)
                       ELSE [map |-> watchers[w].map, out |-> << >>]
               sent == {done.out[i].path : i \in 1..Len(done.out)}
           IN /\ watchers' = [watchers EXCEPT ![w].queue = Tail(@), ![w].map = done.map]
              /\ emitted' = [watcher |-> w, event |-> event, out |-> done.out]
              /\ last_emit' = [last_emit EXCEPT ![w] = [p \in sent |-> now] @@ @]
              /\ handled' = IF Head(watchers[w].queue).latest THEN handled \cup {w} ELSE handled
        /\ UNCHANGED << file_watcher, starting, now >>
        /\ UNCHANGED << storeVars, callVars >>

\* The monotonic clock moves on.
Advance ==
    /\ now + TimeStep <= MaxTime
    /\ now' = now + TimeStep
    /\ UNCHANGED << file_watcher, watchers, starting, handled, emitted, last_emit >>
    /\ UNCHANGED << storeVars, callVars >>

\* ------------------------------------------------------------------------
\* Commands as threads: lock by lock
\* ------------------------------------------------------------------------
Lock(l) == [do |-> "lock", on |-> l]
Unlock(l) == [do |-> "unlock", on |-> l]
Run(step) == [do |-> "run", on |-> step]

\* Program with the guard of set_notes_folder's first lock kept to the end of
\* the function: the second lock is taken while the first is held.
ProgramHolding(op) ==
    CASE op = "get_settings" -> << Lock("settings"), Run("get"), Unlock("settings") >>
      [] op = "set_notes_folder" ->
            << Run("create_dirs"), Lock("settings"), Run("set_folder"),
               Lock("settings"), Run("clone"), Unlock("settings"), Run("persist") >>
      [] op = "update_settings" ->
            << Lock("settings"), Run("assign"), Unlock("settings"),
               Lock("settings"), Run("clone"), Unlock("settings"), Run("persist") >>
      [] op = "list" ->
            << Lock("settings"), Run("scan"), Lock("notes_cache"), Run("fill_cache"),
               Unlock("notes_cache"), Unlock("settings") >>
      [] op = "read" -> << Lock("settings"), Run("read"), Unlock("settings") >>
      [] op \in {"save", "create"} ->
            << Lock("settings"), Run("alloc"), Run("write"), Unlock("settings") >>
      [] op = "delete" -> << Lock("settings"), Run("remove"), Unlock("settings") >>
      [] op = "search" ->
            << Run("query"), Lock("settings"), Run("search"), Unlock("settings") >>
      [] op = "start" ->
            << Lock("settings"), Run("setup"), Lock("file_watcher"), Run("store"),
               Unlock("file_watcher"), Unlock("settings") >>

\* Program with save_note and create_note reading the folder without keeping
\* the settings guard.
ProgramUnlocked(op) ==
    CASE op = "get_settings" -> << Lock("settings"), Run("get"), Unlock("settings") >>
      [] op = "set_notes_folder" ->
            << Run("create_dirs"), Lock("settings"), Run("set_folder"), Unlock("settings"),
               Lock("settings"), Run("clone"), Unlock("settings"), Run("persist") >>
      [] op = "update_settings" ->
            << Lock("settings"), Run("assign"), Unlock("settings"),
               Lock("settings"), Run("clone"), Unlock("settings"), Run("persist") >>
      [] op = "list" ->
            << Lock("settings"), Run("scan"), Lock("notes_cache"), Run("fill_cache"),
               Unlock("notes_cache"), Unlock("settings") >>
      [] op = "read" -> << Lock("settings"), Run("read"), Unlock("settings") >>
      [] op \in {"save", "create"} -> << Run("alloc"), Run("write") >>
      [] op = "delete" -> << Lock("settings"), Run("remove"), Unlock("settings") >>
      [] op = "search" ->
            << Run("query"), Lock("settings"), Run("search"), Unlock("settings") >>
      [] op = "start" ->
            << Lock("settings"), Run("setup"), Lock("file_watcher"), Run("store"),
               Unlock("file_watcher"), Unlock("settings") >>

\* What a command does, lock by lock: a guard is taken by lock() and released
\* where it goes out of scope (a temporary at the end of its statement, a
\* local at the end of its block, the locals of a function in the reverse
\* order of their declaration).
Program(op) ==
    CASE op = "get_settings" -> << Lock("settings"), Run("get"), Unlock("settings") >>
      [] op = "set_notes_folder" ->
            << Run("create_dirs"), Lock("settings"), Run("set_folder"), Unlock("settings"),
               Lock("settings"), Run("clone"), Unlock("settings"), Run("persist") >>
      [] op = "update_settings" ->
            << Lock("settings"), Run("assign"), Unlock("settings"),
               Lock("settings"), Run("clone"), Unlock("settings"), Run("persist") >>
      [] op = "list" ->
            << Lock("settings"), Run("scan"), Lock("notes_cache"), Run("fill_cache"),
               Unlock("notes_cache"), Unlock("settings") >>
      [] op = "read" -> << Lock("settings"), Run("read"), Unlock("settings") >>
      [] op \in {"save", "create"} ->
            << Lock("settings"), Run("alloc"), Run("write"), Unlock("settings") >>
      [] op = "delete" -> << Lock("settings"), Run("remove"), Unlock("settings") >>
      [] op = "search" ->
            << Run("query"), Lock("settings"), Run("search"), Unlock("settings") >>
      [] op = "start" ->
            << Lock("settings"), Run("setup"), Lock("file_watcher"), Run("store"),
               Unlock("file_watcher"), Unlock("settings") >>

Running(t) == calls[t].pc # 0

\* The instruction thread t is at.
Instr(t) == Program(calls[t].op)[calls[t].pc]
At(t, step) == Running(t) /\ Instr(t) = Run(step)

\* Thread t waits for a mutex that is held.
Blocked(t) ==
    /\ Running(t)
    /\ Instr(t).do = "lock"
    /\ locks[Instr(t).on] # 0

Local(t) == calls[t].local[1]

\* The command of thread t returns res to its caller, the frontend, of which
\* the model keeps nothing (last is the record of the commands that run one
\* at a time): every guard it still holds is dropped.
Finish(t, res) ==
    /\ calls' = [calls EXCEPT ![t] = NoCall]
    /\ locks' = [l \in LockNames |-> IF locks[l] = t THEN 0 ELSE locks[l]]
    /\ last' = last

\* The instruction at pc or after it that is no end of a scope.
RECURSIVE Past(_, _)
Past(prog, pc) ==
    IF pc <= Len(prog) /\ prog[pc].do = "unlock" THEN Past(prog, pc + 1) ELSE pc

\* The thread has run its instruction and goes on with the locals given: the
\* guards whose scope ends here are dropped, and at the end of the function
\* the command returns.
Move(t, local) ==
    LET prog == Program(calls[t].op)
        to == Past(prog, calls[t].pc + 1)
        dropped == {prog[i].on : i \in (calls[t].pc + 1)..(to - 1)}
    IN IF to > Len(prog) THEN Finish(t, local)
       ELSE /\ calls' = [calls EXCEPT ![t].pc = to, ![t].local = local]
            /\ locks' = [l \in LockNames |-> IF l \in dropped THEN 0 ELSE locks[l]]
            /\ last' = last

Goto(t, local) == Move(t, << local >>)
Pass(t) == Move(t, calls[t].local)

\* The arguments a command is invoked with.
Args(op) ==
    CASE op \in {"read", "delete"} -> {[NoArg EXCEPT !.id = << id >>] : id \in SaveIds}
      [] op = "save" -> {[NoArg EXCEPT !.content = << ContentFoo >>]}
      [] op = "search" -> {[NoArg EXCEPT !.content = << q >>] : q \in {<< >>, << "f", "o", "o" >>}}
      [] op = "set_notes_folder" -> {[NoArg EXCEPT !.path = << f >>] : f \in NewFolders}
      [] op = "update_settings" ->
            {[NoArg EXCEPT !.new_settings = << [notes_folder |-> folder, theme |-> theme] >>] :
                folder \in {<< >>} \cup {<< f >> : f \in Folders}, theme \in Themes}
      [] OTHER -> {NoArg}

\* The calls under way that will write a note, and those that will set up a
\* watcher.
Writing == {t \in Threads : Running(t) /\ calls[t].op \in {"save", "create"}}
Starting == {t \in Threads : Running(t) /\ calls[t].op = "start"}

\* The same, one choice for each command, which leaves the settings as a
\* start with a configured folder finds them.
FewArgs(op) ==
    CASE op \in {"read", "delete"} -> {[NoArg EXCEPT !.id = << Foo >>]}
      [] op = "save" -> {[NoArg EXCEPT !.content = << ContentFoo >>]}
      [] op = "search" -> {[NoArg EXCEPT !.content = << << "f", "o", "o" >> >>]}
      [] op = "set_notes_folder" -> {[NoArg EXCEPT !.path = << "/A" >>]}
      [] op = "update_settings" ->
            {[NoArg EXCEPT !.new_settings = << [notes_folder |-> << "/A" >>, theme |-> "dark"] >>]}
      [] OTHER -> {NoArg}

\* A thread that runs nothing invokes a command of ops with arguments of
\* args[op], while at most cap notes are on disk or about to be, and starts a
\* watcher while fewer than starts were set up.
Invoke(t, ops, args, cap, starts) ==
    \E op \in ops :
        \E arg \in args[op] :
            /\ ~Running(t)
            /\ starting = << >>
            /\ op \in {"save", "create"} => NoteCount + Cardinality(Writing) < cap
            /\ op = "start" =>
                 Cardinality({w \in 1..MaxWatchers : Created(w)}) + Cardinality(Starting) < starts
            /\ calls' = [calls EXCEPT ![t] = [op |-> op, pc |-> 1, arg |-> arg, local |-> << >>]]
            /\ UNCHANGED << dataVars, watchVars, last, locks >>

\* Mutex::lock: the thread waits until the mutex is free.
LockStep(t) ==
    /\ Running(t)
    /\ Instr(t).do = "lock"
    /\ locks[Instr(t).on] = 0
    /\ locks' = [locks EXCEPT ![Instr(t).on] = t]
    /\ calls' = [calls EXCEPT ![t].pc = @ + 1]
    /\ UNCHANGED << dataVars, watchVars, last >>

\* get_settings: settings.clone()
GetStep(t) ==
    /\ At(t, "get")
    /\ Goto(t, [ret |-> Ok(<< settings >>)])
    /\ UNCHANGED << dataVars, watchVars >>

\* set_notes_folder: the two create_dir_all
CreateDirsStep(t) ==
    /\ At(t, "create_dirs")
    /\ fs' = CreateDirs(calls[t].arg.path[1])
    /\ Pass(t)
    /\ UNCHANGED << settings, disk_settings, notes_cache, clock, watchVars >>

\* set_notes_folder: settings.notes_folder = Some(path)
SetFolderStep(t) ==
    /\ At(t, "set_folder")
    /\ settings' = [settings EXCEPT !.notes_folder = calls[t].arg.path]
    /\ Pass(t)
    /\ UNCHANGED << disk_settings, fs, notes_cache, clock, watchVars >>

\* update_settings: *settings = new_settings
AssignStep(t) ==
    /\ At(t, "assign")
    /\ settings' = calls[t].arg.new_settings[1]
    /\ Pass(t)
    /\ UNCHANGED << disk_settings, fs, notes_cache, clock, watchVars >>

\* let settings = state.settings.lock().unwrap().clone()
CloneStep(t) ==
    /\ At(t, "clone")
    /\ Goto(t, [snapshot |-> settings])
    /\ UNCHANGED << dataVars, watchVars >>

\* save_settings(&app, &settings)
PersistStep(t) ==
    /\ At(t, "persist")
    /\ disk_settings' = Local(t).snapshot
    /\ Goto(t, [ret |-> Ok(<< >>)])
    /\ UNCHANGED << settings, fs, notes_cache, clock, watchVars >>

\* list_notes up to the sort
ScanStep(t) ==
    /\ At(t, "scan")
    /\ IF ~HasFolder THEN Finish(t, Err(NoFolderErr))
       ELSE IF ~fs[Folder].exists THEN Finish(t, Ok(<< >>))
       ELSE \E order \in Orders(Listed(Folder)) :
            /\ Goto(t, [notes |-> SortNotes([i \in 1..Len(order) |-> Metadata(Folder, order[i])])])
    /\ UNCHANGED << dataVars, watchVars >>

\* list_notes: the cache is cleared and filled
FillCacheStep(t) ==
    /\ At(t, "fill_cache")
    /\ notes_cache' = CacheOf(Local(t).notes)
    /\ Goto(t, [ret |-> Ok(Local(t).notes)])
    /\ UNCHANGED << settings, disk_settings, fs, clock, watchVars >>

\* read_note
ReadStep(t) ==
    /\ At(t, "read")
    /\ LET id == calls[t].arg.id[1]
       IN IF ~HasFolder THEN Finish(t, Err(NoFolderErr))
          ELSE IF ~Exists(Folder, FileName(id)) THEN Finish(t, Err(NotFoundErr))
          ELSE IF ~Files(Folder)[FileName(id)].utf8 THEN Finish(t, Err(IoErr))
          ELSE LET f == Files(Folder)[FileName(id)]
               IN /\ Goto(t, [ret |-> Ok(<< NoteOf(Folder, id, extract_title(f.content),
                                                   f.content, f.modified) >>)])
    /\ UNCHANGED << dataVars, watchVars >>

\* save_note and create_note up to the write: the folder is read and the id
\* chosen, by the loop over the candidates when none is given.
AllocateStep(t) ==
    /\ At(t, "alloc")
    /\ IF ~HasFolder THEN Finish(t, Err(NoFolderErr))
       ELSE LET content == IF calls[t].op = "create" THEN Template ELSE calls[t].arg.content[1]
                title == IF calls[t].op = "create" THEN UntitledTitle ELSE extract_title(content)
                note_id == IF calls[t].op = "create"
                           THEN UniqueId(Folder, Untitled, Untitled, 1)
                           ELSE SaveTarget(Folder, calls[t].arg.id, title)
            IN /\ Goto(t, [folder |-> Folder, note_id |-> note_id, title |-> title,
                           content |-> content])
    /\ UNCHANGED << dataVars, watchVars >>

\* save_note and create_note: fs::write
WriteStep(t) ==
    /\ At(t, "write")
    /\ LET l == Local(t)
       IN IF ~fs[l.folder].exists
          THEN /\ Finish(t, Err(IoErr))
               /\ UNCHANGED fs
          ELSE /\ fs' = WriteFile(l.folder, FileName(l.note_id), l.content)
               /\ Goto(t, [ret |-> Ok(<< NoteOf(l.folder, l.note_id, l.title, l.content, clock) >>)])
    /\ UNCHANGED << settings, disk_settings, notes_cache, clock, watchVars >>

\* delete_note
RemoveStep(t) ==
    /\ At(t, "remove")
    /\ LET id == calls[t].arg.id[1]
       IN IF ~HasFolder
          THEN /\ Finish(t, Err(NoFolderErr))
               /\ UNCHANGED fs
          ELSE /\ fs' = IF Exists(Folder, FileName(id))
                        THEN RemoveFile(Folder, FileName(id)) ELSE fs
               /\ Goto(t, [ret |-> Ok(<< >>)])
    /\ UNCHANGED << settings, disk_settings, notes_cache, clock, watchVars >>

\* search_notes: the test of the query
QueryStep(t) ==
    /\ At(t, "query")
    /\ IF Trim(calls[t].arg.content[1]) = << >> THEN Finish(t, Ok(<< >>))
       ELSE Pass(t)
    /\ UNCHANGED << dataVars, watchVars >>

\* search_notes from the lock on
SearchStep(t) ==
    /\ At(t, "search")
    /\ LET query == calls[t].arg.content[1]
       IN IF ~HasFolder THEN Finish(t, Err(NoFolderErr))
          ELSE IF ~fs[Folder].exists THEN Finish(t, Ok(<< >>))
          ELSE \E order \in ScanOrders(Listed(Folder)) :
               LET scanned == [i \in 1..Len(order) |-> SearchResultOf(Folder, order[i], query)]
               IN /\ Goto(t, [ret |-> Ok(Take(SortResults(Pushed(scanned)), SearchLimit))])
    /\ UNCHANGED << dataVars, watchVars >>

\* start_file_watcher: setup_file_watcher(app, folder)
SetupStep(t) ==
    /\ At(t, "setup")
    /\ IF ~HasFolder
       THEN /\ Finish(t, Err(NoFolderErr))
            /\ UNCHANGED watchers
       ELSE IF ~fs[Folder].exists
       THEN /\ Finish(t, Err(WatchErr))
            /\ UNCHANGED watchers
       ELSE \E w \in 1..MaxWatchers :
            /\ ~Created(w)
            /\ \A v \in 1..(w - 1) : Created(v)
            /\ watchers' = SetupFileWatcher(w, Folder)
            /\ Goto(t, [watcher |-> w])
    /\ UNCHANGED << dataVars, file_watcher, starting, now, handled, emitted, last_emit >>

\* start_file_watcher: *file_watcher = Some(watcher_state)
StoreStep(t) ==
    /\ At(t, "store")
    /\ file_watcher' = << Local(t).watcher >>
    /\ watchers' = Dropped(watchers, file_watcher)
    /\ last_emit' = Forgotten(file_watcher)
    /\ Goto(t, [ret |-> Ok(<< >>)])
    /\ UNCHANGED << dataVars, starting, now, handled, emitted >>

\* The notification thread of w takes up its next raw event.
CallbackBegin(w) ==
    /\ ~Running(WatcherThread(w))
    /\ watchers[w].armed
    /\ watchers[w].queue # << >>
    /\ LET event == Head(watchers[w].queue).raw
       IN calls' = [calls EXCEPT ![WatcherThread(w)] =
                      [op |-> "callback", pc |-> 1, arg |-> NoArg,
                       local |-> << [event |-> event, out |-> << >>,
                                     rest |-> IF event.ok THEN event.paths ELSE << >>] >>]]
    /\ watchers' = [watchers EXCEPT ![w].queue = Tail(@)]
    /\ UNCHANGED << dataVars, file_watcher, starting, now, handled, emitted, last_emit, last, locks >>

\* The callback skips a path that is not a markdown file.
CallbackSkip(w) ==
    LET t == WatcherThread(w)
    IN /\ Running(t) /\ calls[t].pc = 1
       /\ Local(t).rest # << >>
       /\ ~IsMd(Head(Local(t).rest))
       /\ calls' = [calls EXCEPT ![t].local = << [Local(t) EXCEPT !.rest = Tail(@)] >>]
       /\ UNCHANGED << dataVars, watchVars, last, locks >>

\* The callback locks the debounce map for a markdown path (pc = 2 while the
\* guard is held).
CallbackLock(w) ==
    LET t == WatcherThread(w)
    IN /\ Running(t) /\ calls[t].pc = 1
       /\ Local(t).rest # << >>
       /\ IsMd(Head(Local(t).rest))
       /\ calls' = [calls EXCEPT ![t].pc = 2]
       /\ UNCHANGED << dataVars, watchVars, last, locks >>

\* The callback handles the path under the guard, which goes out of scope at
\* the end of the iteration.
CallbackPath(w) ==
    LET t == WatcherThread(w)
    IN /\ Running(t) /\ calls[t].pc = 2
       /\ LET l == Local(t)
              done == Callback(l.event, << Head(l.rest) >>, watchers[w].map, l.out, now)
          IN /\ watchers' = [watchers EXCEPT ![w].map = IF watchers[w].armed THEN done.map ELSE @]
             /\ calls' = [calls EXCEPT ![t].pc = 1,
                                       ![t].local = << [l EXCEPT !.out = done.out, !.rest = Tail(@)] >>]
       /\ UNCHANGED << dataVars, file_watcher, starting, now, handled, emitted, last_emit, last, locks >>

\* The callback returns; what it emitted is with the frontend.
CallbackEnd(w) ==
    LET t == WatcherThread(w)
    IN /\ Running(t) /\ calls[t].pc = 1
       /\ Local(t).rest = << >>
       /\ calls' = [calls EXCEPT ![t] = NoCall]
       /\ UNCHANGED << dataVars, watchVars, last, locks >>

\* ------------------------------------------------------------------------
\* Specifications
\* ------------------------------------------------------------------------
\* The note store on a configured folder, one command at a time.
Next ==
    \/ SetNotesFolder
    \/ ReadNote
    \/ SaveNote(MaxNotes, AnyId, Contents)
    \/ DeleteNote
    \/ CreateNote(MaxNotes)

Spec == Init /\ [][Next]_vars

\* Listing a folder whose notes are created, rewritten and deleted as the
\* wall clock moves on.
NextList ==
    \/ SetNotesFolder
    \/ CreateNote(MaxListed)
    \/ SaveNote(MaxListed, {<< Untitled >>}, {ContentFoo})
    \/ DeleteNote
    \/ ListNotes
    \/ Tick

SpecList == Init /\ [][NextList]_vars

\* Every command, the settings commands among them, one at a time.
NextCmd ==
    \/ SetNotesFolder
    \/ UpdateSettings
    \/ ListNotes
    \/ ReadNote
    \/ SaveNote(MaxCmdNotes, AnyId, {ContentFoo})
    \/ DeleteNote
    \/ CreateNote(MaxCmdNotes)
    \/ StartFileWatcher

SpecCmd == Init /\ [][NextCmd]_vars

\* The watcher thread as time passes, the watcher armed and re-armed by
\* start_file_watcher.
NextWatch ==
    \/ StartFileWatcher
    \/ RawEvent(RawInputs)
    \/ HandleEvent
    \/ Advance

SpecWatch == InitWatch /\ [][NextWatch]_vars

\* The same, the raw events all being create, modify or remove events.
NextBurst ==
    \/ StartFileWatcher
    \/ RawEvent(ClassifiedInputs)
    \/ HandleEvent
    \/ Advance

SpecBurst == InitWatch /\ [][NextBurst]_vars

\* The watcher threads while start_file_watcher runs.
NextRearm ==
    \/ StartSetup
    \/ StartStore
    \/ RawEvent(RawInputs)
    \/ HandleEvent

SpecRearm == InitWatch /\ [][NextRearm]_vars

\* extract_title on every content of TitleInputs.
NextTitle == ExtractTitle

SpecTitle == InitTitle /\ [][NextTitle]_vars

\* Searching a folder of many notes.
NextSearch == SearchNotes(Queries)

SpecSearch == InitSearch /\ [][NextSearch]_vars

\* Threads that save, create and delete notes at the same time.
NextAlloc ==
    \/ \E t \in Threads : Invoke(t, {"save", "create", "delete"}, [op \in {"save", "create", "delete"} |-> Args(op)],
                               MaxNotes, MaxWatchers)
    \/ \E t \in Threads : LockStep(t)
    \/ \E t \in Threads : AllocateStep(t)
    \/ \E t \in Threads : WriteStep(t)
    \/ \E t \in Threads : RemoveStep(t)

SpecAlloc == InitWatch /\ [][NextAlloc]_vars

\* Threads that change the settings at the same time.
NextPersist ==
    \/ \E t \in Threads : Invoke(t, {"set_notes_folder", "update_settings"},
                               [op \in {"set_notes_folder", "update_settings"} |-> Args(op)],
                               0, MaxWatchers)
    \/ \E t \in Threads : CreateDirsStep(t)
    \/ \E t \in Threads : LockStep(t)
    \/ \E t \in Threads : SetFolderStep(t)
    \/ \E t \in Threads : AssignStep(t)
    \/ \E t \in Threads : CloneStep(t)
    \/ \E t \in Threads : PersistStep(t)

SpecPersist == Init /\ [][NextPersist]_vars

\* Every command, invoked by threads at the same time, and the notification
\* threads of the watchers they arm.
Commands == {"get_settings", "set_notes_folder", "update_settings", "list", "read",
             "save", "delete", "create", "search", "start"}

LockInputs == {[ok |-> TRUE, kind |-> "modify", paths |-> << NotesTxt, FooMd >>]}

NextLocks ==
    \/ \E t \in Threads : Invoke(t, Commands, [op \in Commands |-> FewArgs(op)],
                               MaxCmdNotes, MaxStarts)
    \/ \E t \in Threads : LockStep(t)
    \/ \E t \in Threads : GetStep(t)
    \/ \E t \in Threads : CreateDirsStep(t)
    \/ \E t \in Threads : SetFolderStep(t)
    \/ \E t \in Threads : AssignStep(t)
    \/ \E t \in Threads : CloneStep(t)
    \/ \E t \in Threads : PersistStep(t)
    \/ \E t \in Threads : ScanStep(t)
    \/ \E t \in Threads : FillCacheStep(t)
    \/ \E t \in Threads : ReadStep(t)
    \/ \E t \in Threads : AllocateStep(t)
    \/ \E t \in Threads : WriteStep(t)
    \/ \E t \in Threads : RemoveStep(t)
    \/ \E t \in Threads : QueryStep(t)
    \/ \E t \in Threads : SearchStep(t)
    \/ \E t \in Threads : SetupStep(t)
    \/ \E t \in Threads : StoreStep(t)
    \/ RawEvent(LockInputs)
    \/ \E w \in 1..MaxWatchers : CallbackBegin(w)
    \/ \E w \in 1..MaxWatchers : CallbackSkip(w)
    \/ \E w \in 1..MaxWatchers : CallbackLock(w)
    \/ \E w \in 1..MaxWatchers : CallbackPath(w)
    \/ \E w \in 1..MaxWatchers : CallbackEnd(w)

\* Thread t, which runs a command and waits for no mutex, is scheduled: its
\* call moves on. (The first disjunct, the return of the command, is one way
\* for the call to move on; it is spelled out so that ENABLED can be computed
\* from the state alone.)
Turn(t) ==
    /\ Running(t) /\ ~Blocked(t)
    /\ \/ Finish(t, << >>) /\ UNCHANGED << dataVars, watchVars >>
       \/ calls'[t] # calls[t]

\* The notification thread of w, in its callback, is scheduled.
Wake(w) ==
    /\ Running(WatcherThread(w))
    /\ \/ Finish(WatcherThread(w), << >>) /\ UNCHANGED << dataVars, watchVars >>
       \/ calls'[WatcherThread(w)] # calls[WatcherThread(w)]

\* A thread that runs and does not wait is scheduled in the end.
SpecLocks ==
    /\ InitWatch
    /\ [][NextLocks]_vars
    /\ \A t \in Threads : WF_vars(Turn(t))
    /\ \A w \in 1..MaxWatchers : WF_vars(Wake(w))

\* ------------------------------------------------------------------------
\* Claims on the file watcher
\* ------------------------------------------------------------------------
\* The step is a run of w's callback: w stays armed and its queue gets shorter.
CallbackStep(w) ==
    /\ watchers[w].armed /\ watchers'[w].armed
    /\ Len(watchers'[w].queue) < Len(watchers[w].queue)

\* The notifications for path among out.
Sent(out, path) == {i \in 1..Len(out) : out[i].path = path}

\* C1: for one armed watcher and every path, a notification for the path is
\* emitted only when the last notification that watcher emitted for the path
\* lies at least 500ms back, and no callback emits two for the same path; the
\* clock being monotonic, any two notifications for a path are then at least
\* 500ms apart.
C1_AtMostOnePerWindow ==
    [][\A w \in 1..MaxWatchers :
         CallbackStep(w) =>
            \A i \in 1..Len(emitted'.out) :
               LET path == emitted'.out[i].path
               IN /\ Cardinality(Sent(emitted'.out, path)) = 1
                  /\ path \in DOMAIN last_emit[w] => now - last_emit[w][path] >= DebounceMs]_vars

\* A burst: a modify event for Foo.md was suppressed within the window of the
\* notification before it.
C1_Witness ==
    \E w \in Armed :
        /\ emitted.watcher = w
        /\ emitted.event.kind = "modify"
        /\ emitted.out = << >>
        /\ FooMd \in DOMAIN last_emit[w]
        /\ now - last_emit[w][FooMd] < DebounceMs

\* C2: in a stream of create, modify and remove events handled by one armed
\* watcher, an event for a .md path emits exactly one notification for it if
\* no notification for that path was emitted less than 500ms before, and none
\* otherwise, whatever was suppressed meanwhile and whatever happened to
\* other paths.
C2_EmitsIffWindowOver ==
    [][\A w \in 1..MaxWatchers :
         CallbackStep(w) =>
            LET event == Head(watchers[w].queue).raw
            IN \A k \in 1..Len(event.paths) :
                 LET path == event.paths[k]
                     due == \/ path \notin DOMAIN last_emit[w]
                            \/ now - last_emit[w][path] >= DebounceMs
                 IN (Len(path) > 3 /\ SubSeq(path, Len(path) - 2, Len(path)) = << ".", "m", "d" >>)
                      => Cardinality(Sent(emitted'.out, path)) = (IF due THEN 1 ELSE 0)]_vars

\* A second notification for Foo.md, emitted once the window of an earlier
\* one is over, while Untitled.md is inside its own window.
C2_Witness ==
    \E w \in Armed :
        /\ emitted.watcher = w
        /\ Sent(emitted.out, FooMd) # {}
        /\ last_emit[w][FooMd] = now
        /\ now >= DebounceMs
        /\ UntitledMd \in DOMAIN last_emit[w]
        /\ now - last_emit[w][UntitledMd] < DebounceMs

\* C3: at most one watcher is armed at every moment, and no raw filesystem
\* event is processed by two watchers.
C3_SingleWatcher ==
    /\ Cardinality(Armed) <= 1
    /\ Cardinality(handled) <= 1

\* The name ends in ".md".
EndsInMd(path) ==
    Len(path) > 3 /\ SubSeq(path, Len(path) - 2, Len(path)) = << ".", "m", "d" >>

\* C13: the debounce entry of a path is written only when a notification for
\* the path is emitted, and a create, modify or remove event for a .md path
\* is suppressed only if a notification for that path was emitted less than
\* 500ms earlier; so an event of another category never causes a later
\* create, modify or remove event to be suppressed.
C13_EntryIsLastEmission ==
    [][\A w \in 1..MaxWatchers :
         CallbackStep(w) =>
            LET event == Head(watchers[w].queue).raw
                old == watchers[w].map
                new == watchers'[w].map
            IN /\ \A path \in DOMAIN new :
                    (path \notin DOMAIN old \/ new[path] # old[path])
                        => Sent(emitted'.out, path) # {}
               /\ (event.ok /\ event.kind \in {"create", "modify", "remove"}) =>
                    \A k \in 1..Len(event.paths) :
                        LET path == event.paths[k]
                        IN (EndsInMd(path) /\ Sent(emitted'.out, path) = {})
                             => /\ path \in DOMAIN last_emit[w]
                                /\ now - last_emit[w][path] < 500]_vars

\* The kind of notification the description gives an event category.
DescribedKind(kind) ==
    CASE kind = "create" -> "created"
      [] kind = "modify" -> "modified"
      [] kind = "remove" -> "deleted"
      [] OTHER -> "none"

\* C15: a callback emits a notification only for a path of its event whose
\* extension is exactly md, and only if the event is a create, modify or
\* remove event, with the kind created, modified or deleted; events of any
\* other category, errors and paths of another extension emit nothing; and
\* each path of an event is processed whatever happened to the paths before
\* it: a .md path whose debounce entry is absent or at least 500ms old is
\* notified once.
C15_ClassifiesMdPaths ==
    [][\A w \in 1..MaxWatchers :
         CallbackStep(w) =>
            LET event == Head(watchers[w].queue).raw
                out == emitted'.out
                map == watchers[w].map
            IN /\ \A i \in 1..Len(out) :
                    /\ event.ok
                    /\ \E k \in 1..Len(event.paths) : event.paths[k] = out[i].path
                    /\ EndsInMd(out[i].path)
                    /\ out[i].kind = DescribedKind(event.kind)
                    /\ out[i].kind \in {"created", "modified", "deleted"}
               /\ (~event.ok \/ event.kind \notin {"create", "modify", "remove"}) => out = << >>
               /\ (event.ok /\ event.kind \in {"create", "modify", "remove"}) =>
                    \A k \in 1..Len(event.paths) :
                        LET path == event.paths[k]
                        IN (EndsInMd(path) /\ (path \notin DOMAIN map \/ now - map[path] >= 500))
                             => Cardinality(Sent(out, path)) = 1]_vars

\* A create event for Foo.md and untitled.md: Foo.md was inside its window
\* and suppressed, untitled.md after it was notified as created.
C15_Witness ==
    \E w \in Armed :
        /\ emitted.watcher = w
        /\ emitted.event.kind = "create"
        /\ emitted.event.paths = << FooMd, UntitledMd >>
        /\ emitted.out = << [kind |-> "created", path |-> UntitledMd] >>

\* ------------------------------------------------------------------------
\* Claims on the note store
\* ------------------------------------------------------------------------
\* The note a successful read, save or create returned.
Returned(call) == call.res.val[1]

\* The step is a successful save without an id, or a successful create.
AllocStep ==
    /\ last' # last
    /\ last'.op \in {"save", "create"}
    /\ last'.id = << >>
    /\ last'.res.ok

\* Every file of dir other than name is in dir2, unchanged.
KeptBut(dir, dir2, name) ==
    \A n \in (DOMAIN dir) \ {name} : n \in DOMAIN dir2 /\ dir2[n] = dir[n]

\* C4: a save without an id and a create return an id whose file did not exist
\* before the call, and leave every file that existed as it was.
C4_AllocationNeverClobbers ==
    [][AllocStep =>
         LET name == FileName(Returned(last').id)
         IN /\ name \notin DOMAIN Files(Folder)
            /\ name \in DOMAIN fs'[Folder].files
            /\ KeptBut(Files(Folder), fs'[Folder].files, name)
            /\ \A f \in Folders \ {Folder} : fs'[f] = fs[f]]_vars

\* save returned Foo-1 beside the Foo.md that was there, which still holds
\* what was saved to it.
C4_Witness ==
    /\ last.op = "save"
    /\ last.id = << >>
    /\ last.res.ok
    /\ Returned(last).id = Candidate(Foo, 1)
    /\ Exists(Folder, FileName(Foo))
    /\ Files(Folder)[FileName(Foo)].content = ContentSlash

\* The base id of an allocating call: "untitled" for create, the sanitized
\* title of the content for save.
BaseOf(call) ==
    IF call.op = "create" THEN << "u", "n", "t", "i", "t", "l", "e", "d" >>
    ELSE sanitize_filename(extract_title(call.content[1]))

\* C5: allocation returns the base id when no note has it, and otherwise
\* base-k for the smallest k >= 1 that no note has.
C5_SmallestFreeSuffix ==
    [][AllocStep =>
         LET base == BaseOf(last')
             id == Returned(last').id
             taken(i) == FileName(i) \in DOMAIN Files(Folder)
         IN IF ~taken(base) THEN id = base
            ELSE \E k \in 1..(Cardinality(DOMAIN Files(Folder)) + 1) :
                    /\ id = Candidate(base, k)
                    /\ ~taken(id)
                    /\ \A j \in 1..(k - 1) : taken(Candidate(base, j))]_vars

\* With untitled and untitled-1 there, create returned untitled-2.
C5_Witness ==
    /\ last.op = "create"
    /\ last.res.ok
    /\ Returned(last).id = << "u", "n", "t", "i", "t", "l", "e", "d", "-", "2" >>
    /\ Exists(Folder, FileName(Untitled))
    /\ Exists(Folder, FileName(Candidate(Untitled, 1)))

\* C6: a read that follows a successful save or create and asks for the id it
\* returned gives a note with that id, the content written and the title
\* extracted from it ("Untitled" for the template of create).
C6_RoundTrip ==
    [][(/\ last.op \in {"save", "create"}
        /\ last.res.ok
        /\ last'.op = "read"
        /\ last'.id = << Returned(last).id >>)
       => LET content == IF last.op = "save" THEN last.content[1] ELSE Template
          IN /\ last'.res.ok
             /\ Returned(last').id = Returned(last).id
             /\ Returned(last').content = content
             /\ Returned(last').title = extract_title(content)
             /\ Returned(last).title = Returned(last').title
             /\ last.op = "create" => Returned(last').title = UntitledTitle]_vars

\* A read gave back the note that save had to store as Foo-1.
C6_Witness ==
    /\ last.op = "read"
    /\ last.res.ok
    /\ Returned(last).id = Candidate(Foo, 1)
    /\ Returned(last).content = ContentFoo
    /\ Returned(last).title = Foo

\* C7: a save with an id returns that id whatever the title of the content,
\* leaves the content in the file of that id, and creates, removes or changes
\* no other file.
C7_SaveKeepsId ==
    [][(last'.op = "save" /\ last'.id # << >> /\ last'.res.ok)
       => LET name == FileName(last'.id[1])
          IN /\ Returned(last').id = last'.id[1]
             /\ name \in DOMAIN fs'[Folder].files
             /\ fs'[Folder].files[name].content = last'.content[1]
             /\ KeptBut(Files(Folder), fs'[Folder].files, name)
             /\ KeptBut(fs'[Folder].files, Files(Folder), name)
             /\ \A f \in Folders \ {Folder} : fs'[f] = fs[f]]_vars

\* The note Foo was saved with a content whose title is not Foo, beside
\* another note.
C7_Witness ==
    /\ last.op = "save"
    /\ last.id = << Foo >>
    /\ last.res.ok
    /\ Returned(last).title # Foo
    /\ Exists(Folder, FileName(Candidate(Foo, 1)))

\* C8: with a folder configured a delete succeeds whether or not the file is
\* there, leaves no file of that id and every other file as it was (so a
\* delete of an absent id changes nothing), and a read of the id that follows
\* it fails with NotFound.
C8_DeleteIdempotent ==
    [][/\ (HasFolder /\ last'.op = "delete" /\ (last' # last \/ fs' # fs))
          => LET name == FileName(last'.id[1])
             IN /\ last'.res.ok
                /\ name \notin DOMAIN fs'[Folder].files
                /\ KeptBut(Files(Folder), fs'[Folder].files, name)
                /\ \A f \in Folders \ {Folder} : fs'[f] = fs[f]
       /\ (last.op = "delete" /\ last.res.ok /\ last'.op = "read" /\ last'.id = last.id)
          => last'.res = Err(NotFoundErr)
       /\ (last.op = "delete" /\ last.res.ok /\ last'.op = "delete" /\ last'.id = last.id)
          => (last'.res.ok /\ fs' = fs)]_vars

\* Foo was deleted and the read of Foo failed, Foo-1 still being there.
C8_Witness ==
    /\ last.op = "read"
    /\ last.id = << Foo >>
    /\ last.res = Err(NotFoundErr)
    /\ Exists(Folder, FileName(Candidate(Foo, 1)))

\* Thread t runs a save without an id or a create.
Allocating(t) ==
    /\ Running(t)
    /\ calls[t].op \in {"save", "create"}
    /\ calls[t].arg.id = << >>

\* Thread t has found its candidate id free and has not written the file yet.
InWindow(t) == Allocating(t) /\ At(t, "write")

\* Thread t has invoked a save without an id or a create and has not yet
\* looked for a free id.
BeforeCheck(t) == Allocating(t) /\ calls[t].pc = 1

\* C14 as stated: allocation is an unlocked check-then-create, so that while
\* one call stands between its check and its write a second save or create
\* can go on to its own check (and find the same candidate free).
C14_UnlockedCheckThenCreate ==
    \A t, u \in Threads :
        (t # u /\ InWindow(t) /\ BeforeCheck(u)) => ENABLED LockStep(u)

\* C14, amended: the check and the create of a call both happen under the
\* settings lock, which the call holds from before the check until after the
\* write: at most one call stands between its check and its write, the
\* candidate it chose still names no file when it is written, and the write
\* changes no other file; no note is overwritten by a call that allocates.
C14_AllocationSerialized ==
    [][/\ Cardinality({t \in Threads : InWindow(t)}) <= 1
       /\ \A t \in Threads : InWindow(t) => locks.settings = t
       /\ \A t \in Threads :
            (InWindow(t) /\ fs' # fs /\ calls'[t] # calls[t]) =>
                LET name == FileName(Local(t).note_id)
                    dir == Files(Local(t).folder)
                IN /\ name \notin DOMAIN dir
                   /\ name \in DOMAIN fs'[Local(t).folder].files
                   /\ KeptBut(dir, fs'[Local(t).folder].files, name)]_vars

\* Two saves of the same content at the same time: one has found Foo-1 free
\* beside Foo and is about to write it, the other has been invoked and waits
\* for the lock.
C14_Witness ==
    \E t, u \in Threads :
        /\ t # u
        /\ InWindow(t)
        /\ calls[t].op = "save"
        /\ Local(t).note_id = Candidate(Foo, 1)
        /\ BeforeCheck(u)
        /\ calls[u].op = "save"
        /\ calls[u].arg.content = calls[t].arg.content

\* ------------------------------------------------------------------------
\* Claims on the commands without a folder
\* ------------------------------------------------------------------------
FolderCommands == {"list", "read", "save", "delete", "create", "start"}

\* C9: with no folder configured, list, read, save, delete, create and
\* start_file_watcher fail with the no-folder error and change neither the
\* disk, the cache, the settings nor the watcher.
C9_NoFolderFailsUnchanged ==
    [][(~HasFolder /\ last'.op \in FolderCommands /\ (last' # last \/ notes_cache' # notes_cache))
       => /\ last'.res = Err(NoFolderErr)
          /\ UNCHANGED << fs, notes_cache, settings, disk_settings, file_watcher, watchers >>]_vars

\* start_file_watcher failed for want of a folder while a watcher was armed
\* and the cache was filled.
C9_Witness ==
    /\ ~HasFolder
    /\ last.op = "start"
    /\ last.res = Err(NoFolderErr)
    /\ file_watcher # << >>
    /\ notes_cache # << >>

\* ------------------------------------------------------------------------
\* Claims on listing
\* ------------------------------------------------------------------------
\* The names of the readable files of the folder that end in ".md".
ReadableMd(folder) ==
    {n \in DOMAIN Files(folder) :
        /\ Len(n) > 3
        /\ SubSeq(n, Len(n) - 2, Len(n)) = << ".", "m", "d" >>
        /\ Files(folder)[n].kind = "file"
        /\ Files(folder)[n].utf8}

\* The list a successful list returned, the folder being as it was then.
Listing == last.op = "list" /\ last.res.ok /\ HasFolder /\ fs[Folder].exists

\* list returned one entry for each readable .md file and nothing else.
ListsTheNotes ==
    /\ Len(last.res.val) = Cardinality(ReadableMd(Folder))
    /\ \A n \in ReadableMd(Folder) :
         \E i \in 1..Len(last.res.val) :
            /\ last.res.val[i].id = SubSeq(n, 1, Len(n) - 3)
            /\ last.res.val[i].modified = Files(Folder)[n].modified

\* C10 as stated: the entries are those of the readable .md files and every
\* entry's modified is strictly greater than that of the entry after it.
C10_StrictlyDescending ==
    Listing =>
        /\ ListsTheNotes
        /\ \A i \in 1..(Len(last.res.val) - 1) :
              last.res.val[i].modified > last.res.val[i + 1].modified

\* C10, amended: the entries are those of the readable .md files and no
\* entry's modified is less than that of the entry after it.
C10_Descending ==
    Listing =>
        /\ ListsTheNotes
        /\ \A i \in 1..(Len(last.res.val) - 1) :
              last.res.val[i].modified >= last.res.val[i + 1].modified

\* Two notes written in different seconds were listed, the newer first,
\* beside notes.txt and the unreadable bin.md.
C10_Witness ==
    /\ Listing
    /\ Len(last.res.val) = 2
    /\ last.res.val[1].modified > last.res.val[2].modified
    /\ Exists(Folder, NotesTxt)
    /\ Exists(Folder, BinMd)

\* C16: after a successful list the cache holds exactly the entries the call
\* returned, keyed by id, and nothing of an earlier listing, also when the
\* call returned an empty list.
C16_CacheIsLastListing ==
    (last.op = "list" /\ last.res.ok) =>
        /\ DOMAIN notes_cache = {last.res.val[i].id : i \in 1..Len(last.res.val)}
        /\ \A i \in 1..Len(last.res.val) : notes_cache[last.res.val[i].id] = last.res.val[i]

\* ------------------------------------------------------------------------
\* Claims on the watched folder
\* ------------------------------------------------------------------------
\* C17: whenever a watcher is armed, the folder it observes is the notes
\* folder held in the settings.
C17_WatcherFollowsSettings ==
    \A w \in Armed : HasFolder /\ watchers[w].folder = Folder

\* ------------------------------------------------------------------------
\* Claims on the locks
\* ------------------------------------------------------------------------
\* The mutexes of AppState thread t holds.
Holds(t) == {l \in LockNames : locks[l] = t}

\* The callback of watcher w holds the guard of its debounce map.
DebounceHeld(w) == calls[WatcherThread(w)].pc = 2

\* The step takes no mutex out of order: settings is taken by a thread that
\* holds nothing, notes_cache and file_watcher by a thread that holds at most
\* settings.
AcquiredInOrder ==
    \A t \in Threads, l \in LockNames :
        (locks'[l] = t /\ locks[l] # t) =>
            IF l = "settings" THEN Holds(t) = {} ELSE Holds(t) \subseteq {"settings"}

\* A thread that waits for a mutex waits for another thread, which waits for
\* none; the guard of a debounce map is held by a callback only, which holds
\* no mutex of AppState.
NoneStuck ==
    /\ \A t \in Threads :
          Blocked(t) => /\ locks[Instr(t).on] \in Threads \ {t}
                        /\ ~Blocked(locks[Instr(t).on])
    /\ \A w \in 1..MaxWatchers : Holds(WatcherThread(w)) = {}

\* C18: no interleaving of commands and watcher callbacks deadlocks: every
\* mutex is taken in the order settings, then notes_cache or file_watcher,
\* the guard of a debounce map never together with another lock; a thread
\* that waits for a mutex waits for one that waits for none; and a thread
\* that holds a lock releases every lock it holds in the end.
C18_NoDeadlock ==
    /\ [][AcquiredInOrder]_vars
    /\ []NoneStuck
    /\ \A t \in Threads : (Holds(t) # {}) ~> (Holds(t) = {})
    /\ \A w \in 1..MaxWatchers : DebounceHeld(w) ~> ~DebounceHeld(w)

\* A list_notes holds settings and notes_cache while another command waits
\* for settings and a callback holds the guard of its debounce map.
C18_Witness ==
    \E t \in Threads, u \in Threads, w \in 1..MaxWatchers :
        /\ Holds(t) = {"settings", "notes_cache"}
        /\ Blocked(u)
        /\ DebounceHeld(w)

\* ------------------------------------------------------------------------
\* Claims on the settings
\* ------------------------------------------------------------------------
\* C19: once every set_notes_folder and update_settings call has returned,
\* the settings on disk equal the settings in memory; and what a call writes
\* to disk is the settings as they were in memory when it read them back
\* after its own update.
C19_DiskEqualsMemory ==
    [][/\ (\A t \in Threads : calls'[t].pc = 0) => disk_settings' = settings'
       /\ \A t \in Threads :
            (At(t, "persist") /\ calls'[t] # calls[t]) => disk_settings' = Local(t).snapshot]_vars

\* ------------------------------------------------------------------------
\* Claims on the title
\* ------------------------------------------------------------------------
\* The text after "# " of a trimmed line that starts with it, trimmed.
HeadingText(line) == Trim(DropFirst(Trim(line), 2))

\* The line is a heading with a title: "# " and text that is not effectively
\* empty.
QualifiesAsHeading(line) ==
    /\ StartsWith(Trim(line), << "#", " " >>)
    /\ ~is_effectively_empty(HeadingText(line))

\* The first line of ls that satisfies P, as an Option.
FirstLine(ls, P(_)) ==
    LET hits == {i \in 1..Len(ls) : P(ls[i])}
    IN IF hits = {} THEN << >>
       ELSE << ls[CHOOSE i \in hits : \A j \in hits : i <= j] >>

NotEmptyLine(line) == ~is_effectively_empty(Trim(line))

\* The title the description gives a content: the first heading with a title
\* wherever it stands, else the first line that is not effectively empty cut
\* to 50 characters, else "Untitled".
DescribedTitle(content) ==
    LET ls == Lines(content)
        heading == FirstLine(ls, QualifiesAsHeading)
        line == FirstLine(ls, NotEmptyLine)
    IN IF heading # << >> THEN HeadingText(heading[1])
       ELSE IF line # << >> THEN Take(Trim(line[1]), 50)
       ELSE << "U", "n", "t", "i", "t", "l", "e", "d" >>

\* C11: for every content, extract_title gives the text of the first line that
\* qualifies as a heading; only if no line qualifies, the first line that is
\* not effectively empty, cut to 50 characters; and "Untitled" if every line
\* is effectively empty.
C11_HeadingFirst ==
    last.op = "extract_title" => last.res.val[1] = DescribedTitle(last.content[1])

\* ------------------------------------------------------------------------
\* Claims on search
\* ------------------------------------------------------------------------
\* A search returned, the folder being as it was then.
Searched == last.op = "search" /\ last.res.ok

\* The query is empty or made of whitespace only.
Blank(query) == \A i \in 1..Len(query) : query[i] \in {" ", "TAB", "LF", "CR", "NBSP"}

\* The score of the note in the file n for the query.
ScoreOf(n, query) ==
    calculate_score(query, extract_title(Files(Folder)[n].content), Files(Folder)[n].content)

\* The title-level bonus of the description: that of the first rule that
\* matches among exact match, title contains query, title starts with query.
DescribedBonus(query, title) ==
    LET q == ToLower(query)
        t == ToLower(title)
    IN IF t = q THEN 100
       ELSE IF Contains(t, q) THEN 50
       ELSE IF StartsWith(t, q) THEN 40
       ELSE 0

\* The per-word bonuses of the description, summed over the words.
DescribedWordBonus(query, title, content) ==
    LET words == SplitWhitespace(ToLower(query), << >>, << >>)
        counted == {i \in 1..Len(words) : ByteLen(words[i]) >= 2}
    IN 20 * Cardinality({i \in counted : Contains(ToLower(title), words[i])})
       + 5 * Cardinality({i \in counted : Contains(ToLower(content), words[i])})

\* C12: a search with an empty or whitespace-only query returns an empty
\* list; otherwise the result holds only notes with a score above 0, in
\* non-increasing order of score, and is the 20 (or fewer, if there are
\* fewer) highest-scoring of them; a score is the title-level bonus of the
\* first rule that matches plus the per-word bonuses, so a note whose title
\* contains the query scores at least 50.
C12_SearchRanking ==
    (last.op = "search") =>
        LET query == last.content[1]
            val == last.res.val
        IN /\ Blank(query) => (last.res.ok /\ val = << >>)
           /\ (~Blank(query) /\ last.res.ok /\ HasFolder /\ fs[Folder].exists) =>
                LET positive == {n \in ReadableMd(Folder) : ScoreOf(n, query) > 0}
                    found == {n \in positive :
                                \E i \in 1..Len(val) :
                                    /\ FileName(val[i].id) = n
                                    /\ val[i].score = ScoreOf(n, query)}
                IN /\ Len(val) = (IF Cardinality(positive) < 20 THEN Cardinality(positive) ELSE 20)
                   /\ Cardinality(found) = Len(val)
                   /\ \A i \in 1..Len(val) : val[i].score > 0
                   /\ \A i \in 1..(Len(val) - 1) : val[i].score >= val[i + 1].score
                   /\ \A n \in positive \ found, i \in 1..Len(val) : ScoreOf(n, query) <= val[i].score
                   /\ \A n \in ReadableMd(Folder) :
                        LET content == Files(Folder)[n].content
                            title == extract_title(content)
                        IN /\ ScoreOf(n, query) = DescribedBonus(query, title)
                                                     + DescribedWordBonus(query, title, content)
                           /\ Contains(ToLower(title), ToLower(query)) => ScoreOf(n, query) >= 50

\* Of more than 20 notes that score above 0 for "shop" the search returned
\* 20, a "Shopping List" with a score of at least 50 first and a "Recipe
\* Book" last.
C12_Witness ==
    /\ Searched
    /\ last.content[1] = << "s", "h", "o", "p" >>
    /\ HasFolder
    /\ Cardinality({n \in ReadableMd(Folder) : ScoreOf(n, last.content[1]) > 0}) > 20
    /\ Len(last.res.val) = 20
    /\ last.res.val[1].title = << "S", "h", "o", "p", "p", "i", "n", "g", " ", "L", "i", "s", "t" >>
    /\ last.res.val[1].score >= 50
    /\ last.res.val[20].title = << "R", "e", "c", "i", "p", "e", " ", "B", "o", "o", "k" >>
    /\ last.res.val[20].score < last.res.val[1].score

====
